---- MODULE Spec2Model ----
(***************************************************************************)
(* A model of VPlugin's plugin lifecycle (src/src/plugin.rs): archive      *)
(* extraction, manifest parsing, dynamic binding, hook resolution,         *)
(* termination and destruction, together with the part of the file system  *)
(* and of the process (current directory, panics) that these touch.        *)
(***************************************************************************)
EXTENDS Integers, Sequences, FiniteSets, TLC

\* Number of Plugin values the host may hold at once.
NumPlugins == 2

Pids == 1..NumPlugins

\* The count of successful terminations of one plugin is kept up to here.
MaxCycles == 2

(***************************************************************************)
(* Option<T>: None is the empty sequence, Some(x) the one-element sequence.*)
(***************************************************************************)
None == <<>>

Some(x) == <<x>>

IsNone(o) == Len(o) = 0

IsSome(o) == Len(o) = 1

Unwrap(o) == o[1]

(***************************************************************************)
(* Paths are sequences of components.                                      *)
(***************************************************************************)
TempDir == <<"tmp">>

\* env::temp_dir().join("vplugin")
StagingRoot == TempDir \o <<"vplugin">>

\* The directory the host process was started in.
HomeDir == <<"home">>

IsPrefix(p, q) == Len(p) <= Len(q) /\ SubSeq(q, 1, Len(p)) = p

IsUnder(root, p) == IsPrefix(root, p)

Prefixes(p) == {SubSeq(p, 1, n) : n \in 1..Len(p)}

Parent(p) == SubSeq(p, 1, Len(p) - 1)

\* Lexical resolution of ".." components, as the OS resolves an existing path.
RECURSIVE Resolve(_, _)
Resolve(acc, rest) ==
  IF rest = <<>> THEN acc
  ELSE IF Head(rest) = ".."
       THEN Resolve(IF acc = <<>> THEN acc ELSE Parent(acc), Tail(rest))
       ELSE IF Head(rest) = "/"
            THEN Resolve(<<>>, Tail(rest))
            ELSE Resolve(Append(acc, Head(rest)), Tail(rest))

\* Path::join followed by resolution: an absolute name replaces the base.
Join(base, rel) == Resolve(base, rel)

(***************************************************************************)
(* zip's ZipFile::enclosed_name: None for an absolute name or one whose    *)
(* ".." components climb above its start, else the name itself.            *)
(***************************************************************************)
RECURSIVE EnclosedDepthOk(_, _)
EnclosedDepthOk(name, depth) ==
  IF name = <<>> THEN TRUE
  ELSE IF Head(name) = "/" THEN FALSE
       ELSE IF Head(name) = ".."
            THEN depth > 0 /\ EnclosedDepthOk(Tail(name), depth - 1)
            ELSE EnclosedDepthOk(Tail(name), depth + 1)

EnclosedName(name) == IF EnclosedDepthOk(name, 0) THEN Some(name) ELSE None

(***************************************************************************)
(* Plugin names and versions: strings, with their characters.              *)
(***************************************************************************)
Chars ==
  [x \in {"", "alpha", "beta", "a b", "a\tb", "1.0", "1 0"} |->
     CASE x = "" -> <<>>
       [] x = "alpha" -> <<"a", "l", "p", "h", "a">>
       [] x = "beta" -> <<"b", "e", "t", "a">>
       [] x = "a b" -> <<"a", " ", "b">>
       [] x = "a\tb" -> <<"a", "\t", "b">>
       [] x = "1.0" -> <<"1", ".", "0">>
       [] x = "1 0" -> <<"1", " ", "0">>]

\* str::is_empty
IsEmpty(s) == Len(Chars[s]) = 0

\* str::contains(char)
Contains(s, c) == \E i \in 1..Len(Chars[s]) : Chars[s][i] = c

Whitespace == {" ", "\t"}

HasWhitespace(s) == \E c \in Whitespace : Contains(s, c)

(***************************************************************************)
(* File contents.  A manifest's text is named by a content tag; toml's      *)
(* deserialisation into Data is the table TomlFromStr.                     *)
(***************************************************************************)
MetaRec(n, v, o) == [name |-> n, version |-> v, objfile |-> o]

\* Mutant: a text that is no manifest deserialises to a default record.
TomlFromStrLenient(c) ==
  CASE c = "toml_alpha" -> Some(MetaRec("alpha", "1.0", "lib.so"))
    [] c = "toml_beta" -> Some(MetaRec("beta", "1.0", "lib.so"))
    [] c = "toml_empty" -> Some(MetaRec("", "1.0", "lib.so"))
    [] c = "toml_space" -> Some(MetaRec("a b", "1.0", "lib.so"))
    [] c = "toml_tab" -> Some(MetaRec("a\tb", "1.0", "lib.so"))
    [] c = "toml_badver" -> Some(MetaRec("alpha", "1 0", "lib.so"))
    [] c = "toml_nover" -> Some(MetaRec("alpha", "", "lib.so"))
    [] OTHER -> Some(MetaRec("alpha", "1.0", "lib.so"))

TomlFromStr(c) ==
  CASE c = "toml_alpha" -> Some(MetaRec("alpha", "1.0", "lib.so"))
    [] c = "toml_beta" -> Some(MetaRec("beta", "1.0", "lib.so"))
    [] c = "toml_empty" -> Some(MetaRec("", "1.0", "lib.so"))
    [] c = "toml_space" -> Some(MetaRec("a b", "1.0", "lib.so"))
    [] c = "toml_tab" -> Some(MetaRec("a\tb", "1.0", "lib.so"))
    [] c = "toml_badver" -> Some(MetaRec("alpha", "1 0", "lib.so"))
    [] c = "toml_nover" -> Some(MetaRec("alpha", "", "lib.so"))
    [] OTHER -> None

\* The symbols a module file exports; Library::new fails on a file that is
\* no module.
ModuleExports(c) ==
  CASE c = "so_full" -> Some({"vplugin_exit", "hook"})
    [] c = "so_nodtor" -> Some({"hook"})
    [] OTHER -> None

\* The export names the host asks for.
Symbols == {"hook", "absent"}

(***************************************************************************)
(* Archives: the entries of each package, in archive order.                *)
(***************************************************************************)
FileEntry(n, c) == [name |-> n, dir |-> FALSE, content |-> c]

DirEntry(n) == [name |-> n, dir |-> TRUE, content |-> ""]

ArchiveEntries(a) ==
  CASE a = "alpha.vpl" ->
         <<FileEntry(<<"metadata.toml">>, "toml_alpha"),
           FileEntry(<<"lib.so">>, "so_full")>>
    [] a = "beta.vpl" ->
         <<FileEntry(<<"metadata.toml">>, "toml_beta"),
           FileEntry(<<"lib.so">>, "so_nodtor")>>
    [] a = "nomanifest.vpl" ->
         <<FileEntry(<<"lib.so">>, "so_full")>>
    [] a = "emptyname.vpl" ->
         <<FileEntry(<<"metadata.toml">>, "toml_empty"),
           FileEntry(<<"lib.so">>, "so_full")>>
    [] a = "spacename.vpl" ->
         <<FileEntry(<<"metadata.toml">>, "toml_space"),
           FileEntry(<<"lib.so">>, "so_full")>>
    [] a = "tabname.vpl" ->
         <<FileEntry(<<"metadata.toml">>, "toml_tab"),
           FileEntry(<<"lib.so">>, "so_full")>>
    [] a = "nomodule.vpl" ->
         <<FileEntry(<<"metadata.toml">>, "toml_alpha")>>
    [] a = "badmodule.vpl" ->
         <<FileEntry(<<"metadata.toml">>, "toml_alpha"),
           FileEntry(<<"lib.so">>, "so_bad")>>
    [] a = "corrupt.vpl" -> <<>>
    [] a = "badversion.vpl" ->
         <<FileEntry(<<"metadata.toml">>, "toml_badver"),
           FileEntry(<<"lib.so">>, "so_full")>>
    [] a = "emptyversion.vpl" ->
         <<FileEntry(<<"metadata.toml">>, "toml_nover"),
           FileEntry(<<"lib.so">>, "so_full")>>
    [] a = "badtoml.vpl" ->
         <<FileEntry(<<"metadata.toml">>, "toml_nosection"),
           FileEntry(<<"lib.so">>, "so_full")>>
    [] a = "noname.vpl" ->
         <<FileEntry(<<"metadata.toml">>, "toml_noname"),
           FileEntry(<<"lib.so">>, "so_full")>>
    [] a = "slip.vpl" ->
         <<FileEntry(<<"metadata.toml">>, "toml_alpha"),
           FileEntry(<<"lib.so">>, "so_full"),
           DirEntry(<<"res">>),
           FileEntry(<<"res", "..", "note.txt">>, "text"),
           FileEntry(<<"..", "escape.txt">>, "text"),
           FileEntry(<<"/", "abs.txt">>, "text")>>

Archives ==
  {"alpha.vpl", "beta.vpl", "nomanifest.vpl", "emptyname.vpl",
   "spacename.vpl", "tabname.vpl", "slip.vpl", "nomodule.vpl",
   "badmodule.vpl", "corrupt.vpl", "badversion.vpl", "emptyversion.vpl",
   "badtoml.vpl", "noname.vpl"}

\* ZipArchive::new: the file opens and is no zip archive.
IsZip(a) == a # "corrupt.vpl"

\* Paths that are no readable archive, by what File::open reports for each.
OpenArchive(filename) ==
  CASE filename \in Archives -> "Ok"
    [] filename = "missing.vpl" -> "NotFound"
    [] filename = "denied.vpl" -> "PermissionDenied"
    [] filename = "unsupported.vpl" -> "Unsupported"
    [] filename = "interrupted.vpl" -> "Interrupted"
    [] filename = "eof.vpl" -> "UnexpectedEof"
    [] filename = "oom.vpl" -> "OutOfMemory"
    [] filename = "other.vpl" -> "Other"
    [] filename = "nul.vpl" -> "InvalidInput"

Filenames ==
  Archives \cup {"missing.vpl", "denied.vpl", "unsupported.vpl",
                 "interrupted.vpl", "eof.vpl", "oom.vpl", "other.vpl",
                 "nul.vpl"}

(***************************************************************************)
(* std::io::ErrorKind values File::open may report, and the match that     *)
(* maps them to VPluginError; a kind the match does not list panics.       *)
(***************************************************************************)
ErrorKinds ==
  {"NotFound", "PermissionDenied", "Unsupported", "Interrupted",
   "UnexpectedEof", "OutOfMemory", "Other", "InvalidInput"}

OpenOutcomes == {"Ok"} \cup ErrorKinds

MapOpenError(kind) ==
  CASE kind = "PermissionDenied" -> "PermissionDenied"
    [] kind = "Unsupported" -> "InternalError"
    [] kind = "NotFound" -> "NoSuchFile"
    [] kind = "Interrupted" -> "InvalidPlugin"
    [] kind = "UnexpectedEof" -> "InvalidPlugin"
    [] kind = "OutOfMemory" -> "InternalError"
    [] kind = "Other" -> "InternalError"
    [] OTHER -> "panic"

(***************************************************************************)
(* The state.                                                              *)
(*   non_reusable  cfg!(feature = "non_reusable_plugins"), fixed at build  *)
(*   slots         the places in which the host holds Plugin values        *)
(*   plugins       the Plugin value in each slot (live) or none            *)
(*   files, dirs   the file system: file path -> content, and directories  *)
(*   cwd           the process's current directory                         *)
(*   last          the last operation, its argument and what it returned   *)
(*   nterm         history: how many times the plugin value in each slot   *)
(*                 was terminated successfully, counted up to MaxCycles    *)
(***************************************************************************)
VARIABLES non_reusable, slots, plugins, files, dirs, cwd, last, nterm

vars == <<non_reusable, slots, plugins, files, dirs, cwd, last, nterm>>

\* What the environment does to the I/O of one call: the outcome of opening
\* metadata.toml when it exists, and whether the staging root can be
\* created and written.  At most one of them fails.
Io(mopen, writable) == [mopen |-> mopen, writable |-> writable]

IoOk == Io("Ok", TRUE)

\* struct Plugin, as load_archive builds it (live: the value exists).
NewPlugin(filename) ==
  [live |-> TRUE, metadata |-> None, filename |-> filename,
   is_valid |-> FALSE, started |-> FALSE, raw |-> None]

NoPlugin ==
  [live |-> FALSE, metadata |-> None, filename |-> "",
   is_valid |-> FALSE, started |-> FALSE, raw |-> None]

\* Mutant: the version of the manifest is not taken over.
PluginMetadataNoVersion(data) ==
  [name |-> data.name, version |-> "", objfile |-> data.objfile,
   filename |-> "metadata.toml"]

\* struct PluginMetadata
PluginMetadata(data) ==
  [name |-> data.name, version |-> data.version, objfile |-> data.objfile,
   filename |-> "metadata.toml"]

World(f, d, c) == [files |-> f, dirs |-> d, cwd |-> c]

\* What an operation returned.  site: where it panicked, or what it only
\* logged; err: the Err that load was returning when the drop of its plugin
\* panicked; io: what the environment did to the call's I/O.
Result(op, pid, arg, ret) ==
  [op |-> op, pid |-> pid, arg |-> arg, ret |-> ret, site |-> "",
   err |-> "", looked |-> FALSE, called |-> FALSE, io |-> IoOk]

Panic(op, pid, arg, site) ==
  [Result(op, pid, arg, "panic") EXCEPT !.site = site]

Crashed == last.ret = "panic"

(***************************************************************************)
(* File system primitives.                                                 *)
(***************************************************************************)
\* fs::create_dir_all
CreateDirAll(d, p) == d \cup Prefixes(p)

\* File::create + io::copy, or fs::copy: the file at p now holds content c.
WriteFile(f, p, c) == (p :> c) @@ f

\* fs::remove_dir_all
RemoveDirAll(w, p) ==
  [w EXCEPT !.dirs = {d \in w.dirs : ~IsPrefix(p, d)},
            !.files = [q \in {r \in DOMAIN w.files : ~IsPrefix(p, r)} |->
                         w.files[q]]]

\* The calls of Plugin::load the host makes: every file name with no I/O
\* failure, every archive with a staging root that cannot be written, and
\* one archive with each failure of opening its manifest.
LoadCases ==
  {[file |-> f, io |-> IoOk] : f \in Filenames}
    \cup {[file |-> a, io |-> Io("Ok", FALSE)] : a \in Archives}
    \cup {[file |-> "alpha.vpl", io |-> Io(k, TRUE)] :
            k \in ErrorKinds \ {"NotFound"}}

MetaIoCases == {IoOk, Io("Ok", FALSE), Io("PermissionDenied", TRUE)}

InitWith(s) ==
  /\ non_reusable \in BOOLEAN
  /\ slots = s
  /\ plugins = [p \in Pids |-> NoPlugin]
  /\ files = <<>>
  /\ dirs \in {{TempDir, HomeDir}, {TempDir, HomeDir, StagingRoot}}
  /\ cwd = HomeDir
  /\ last = Result("init", 0, "", "Ok")
  /\ nterm = [p \in Pids |-> 0]

\* The host holds one plugin at a time.
Init == InitWith({1})

\* The host holds up to NumPlugins plugins at once.
InitMany == InitWith(Pids)

(***************************************************************************)
(* Plugin::load_archive, the extraction loop: entry i onwards of the       *)
(* archive, written relative to the current directory.                     *)
(***************************************************************************)
RECURSIVE ExtractFrom(_, _, _, _)
ExtractFrom(entries, i, w, writable) ==
  IF i > Len(entries) THEN [w |-> w, ok |-> TRUE]
  ELSE LET e == entries[i]
           enclosed == EnclosedName(e.name)
       IN IF IsNone(enclosed) THEN ExtractFrom(entries, i + 1, w, writable)
          ELSE LET outpath == Join(w.cwd, Unwrap(enclosed))
               IN IF IsUnder(StagingRoot, outpath) /\ ~writable
                  THEN [w |-> w, ok |-> FALSE]
                  ELSE IF e.dir
                       THEN ExtractFrom(entries, i + 1,
                              [w EXCEPT !.dirs = CreateDirAll(@, outpath)],
                              writable)
                       ELSE ExtractFrom(entries, i + 1,
                              [w EXCEPT
                                 !.dirs = CreateDirAll(@, Parent(outpath)),
                                 !.files = WriteFile(@, outpath, e.content)],
                              writable)

(***************************************************************************)
(* Plugin::load_archive.  writable: whether the staging root can be        *)
(* created and written.                                                    *)
(***************************************************************************)
LoadArchive(a, writable, w) ==
  IF OpenArchive(a) # "Ok"
  THEN [ret |-> MapOpenError(OpenArchive(a)), site |-> "open_archive",
        w |-> w]
  ELSE LET w1 == IF StagingRoot \in w.dirs THEN w
                 ELSE IF writable
                      THEN [w EXCEPT !.dirs = @ \cup {StagingRoot},
                                     !.cwd = StagingRoot]
                      ELSE w
           x == ExtractFrom(ArchiveEntries(a), 1, w1, writable)
       IN IF ~IsZip(a)
          THEN [ret |-> "panic", site |-> "zip_unwrap", w |-> w1]
          ELSE IF x.ok THEN [ret |-> "Ok", site |-> "", w |-> x.w]
               ELSE [ret |-> "panic", site |-> "extract_unwrap", w |-> x.w]

\* The identity check of PluginMetadata::load.
NameRejected(name) == IsEmpty(name) \/ Contains(name, " ")

\* The version check of PluginMetadata::load, which only logs.
VersionWarned(version) == IsEmpty(version) \/ Contains(version, " ")

(***************************************************************************)
(* PluginMetadata::load.  open: the outcome of opening metadata.toml when  *)
(* it exists (NotFound when it does not).                                  *)
(***************************************************************************)
MetadataLoad(open, w) ==
  LET path == Join(w.cwd, <<"metadata.toml">>)
      kind == IF path \notin DOMAIN w.files THEN "NotFound" ELSE open
  IN IF kind # "Ok"
     THEN [ret |-> MapOpenError(kind), site |-> "open_manifest"]
     ELSE LET data == TomlFromStr(w.files[path])
          IN IF IsNone(data) THEN [ret |-> "ParametersError", site |-> ""]
             ELSE IF NameRejected(Unwrap(data).name)
                  THEN [ret |-> "panic", site |-> "name_panic"]
                  ELSE [ret |-> "Ok",
                        site |-> IF VersionWarned(Unwrap(data).version)
                                 THEN "version_warning" ELSE "",
                        meta |-> PluginMetadata(Unwrap(data))]

\* Mutant: the binding forgets to mark the plugin valid.
BindPluginNotValid(pl, lib, v) ==
  [pl EXCEPT !.raw = Some(lib), !.metadata = Some(v)]

\* Plugin::load_metadata, the assignments after Library::new succeeded.
BindPlugin(pl, lib, v) ==
  [pl EXCEPT !.raw = Some(lib), !.is_valid = TRUE, !.metadata = Some(v)]

(***************************************************************************)
(* Plugin::load_metadata on plugin value pl.                               *)
(***************************************************************************)
LoadMetadataOn(pl, open, writable, w) ==
  LET m == MetadataLoad(open, w)
  IN IF m.ret # "Ok"
     THEN [ret |-> m.ret, site |-> m.site, pl |-> pl, w |-> w]
     ELSE LET v == m.meta
              plugin_dir_name == StagingRoot \o <<v.name>>
              src == Join(w.cwd, <<v.objfile>>)
              dst == plugin_dir_name \o <<v.objfile>>
              w1 == [w EXCEPT !.dirs = CreateDirAll(@, plugin_dir_name)]
          IN IF ~writable
             THEN [ret |-> "panic", site |-> "create_dir_unwrap",
                   pl |-> pl, w |-> w]
             ELSE IF src \notin DOMAIN w.files
                  THEN [ret |-> "panic", site |-> "copy_unwrap",
                        pl |-> pl, w |-> w1]
                  ELSE LET w2 == [w1 EXCEPT
                                    !.files = WriteFile(@, dst, w.files[src])]
                           lib == ModuleExports(w2.files[dst])
                       IN IF IsNone(lib)
                          THEN [ret |-> "panic", site |-> "library_unwrap",
                                pl |-> pl, w |-> w2]
                          ELSE [ret |-> "Ok", site |-> m.site,
                                pl |-> BindPlugin(pl, Unwrap(lib), v),
                                w |-> w2]

\* Mutant: the drop removes the staging root.
DropDirNameRoot(name) == StagingRoot

\* The directory the drop removes: temp_dir()/vplugin/<name>.
DropDirName(name) == StagingRoot \o <<name>>

(***************************************************************************)
(* Drop for Plugin.  rmfail: remove_dir_all fails for a reason of the      *)
(* environment's.                                                          *)
(***************************************************************************)
DropOn(pl, rmfail, w) ==
  IF IsNone(pl.metadata)
  THEN [ret |-> "panic", site |-> "drop_unwrap", w |-> w]
  ELSE LET plugin_dir_name == DropDirName(Unwrap(pl.metadata).name)
       IN IF rmfail \/ plugin_dir_name \notin w.dirs
          THEN [ret |-> "Ok", site |-> "remove_failed", w |-> w]
          ELSE [ret |-> "Ok", site |-> "",
                w |-> RemoveDirAll(w, plugin_dir_name)]

(***************************************************************************)
(* The operations.                                                         *)
(***************************************************************************)
TheWorld == World(files, dirs, cwd)

SetWorld(w) ==
  /\ files' = w.files
  /\ dirs' = w.dirs
  /\ cwd' = w.cwd

\* Plugin::load(filename) into the host's slot p.  When load_metadata
\* returns Err, `return Err(e)` drops the Plugin that load_archive built.
Load(p, a, io) ==
  /\ ~Crashed
  /\ ~plugins[p].live
  /\ LET la == LoadArchive(a, io.writable, TheWorld)
     IN IF la.ret # "Ok"
        THEN /\ SetWorld(la.w)
             /\ last' = [Result("load", p, a, la.ret)
                         EXCEPT !.site = la.site, !.io = io]
             /\ UNCHANGED plugins
        ELSE LET lm == LoadMetadataOn(NewPlugin(a), io.mopen, io.writable, la.w)
             IN IF lm.ret = "Ok"
                THEN /\ SetWorld([lm.w EXCEPT !.dirs = CreateDirAll(@,
                            StagingRoot \o <<Unwrap(lm.pl.metadata).name>>)])
                     /\ plugins' = [plugins EXCEPT ![p] = lm.pl]
                     /\ last' = [Result("load", p, a, "Ok")
                                 EXCEPT !.site = lm.site]
                ELSE IF lm.ret = "panic"
                     THEN /\ SetWorld(lm.w)
                          /\ last' = [Panic("load", p, a, lm.site)
                                      EXCEPT !.io = io]
                          /\ UNCHANGED plugins
                     ELSE LET d == DropOn(lm.pl, FALSE, lm.w)
                          IN /\ SetWorld(d.w)
                             /\ last' = [Result("load", p, a,
                                           IF d.ret = "panic" THEN "panic"
                                           ELSE lm.ret)
                                         EXCEPT !.site = d.site,
                                                !.err = lm.ret,
                                                !.io = io]
                             /\ UNCHANGED plugins
  /\ UNCHANGED <<non_reusable, slots, nterm>>

\* Plugin::load_metadata called by the host on a plugin it holds.
LoadMetadata(p, io) ==
  /\ ~Crashed
  /\ plugins[p].live
  /\ LET lm == LoadMetadataOn(plugins[p], io.mopen, io.writable, TheWorld)
     IN /\ SetWorld(lm.w)
        /\ plugins' = [plugins EXCEPT ![p] = lm.pl]
        /\ last' = [Result("load_metadata", p, "", lm.ret)
                    EXCEPT !.site = lm.site, !.io = io]
  /\ UNCHANGED <<non_reusable, slots, nterm>>

\* The external start signal of the plugin registry: Bound -> Started.
Start(p) ==
  /\ ~Crashed
  /\ plugins[p].live
  /\ plugins[p].is_valid
  /\ IsSome(plugins[p].raw)
  /\ ~plugins[p].started
  /\ plugins' = [plugins EXCEPT ![p].started = TRUE]
  /\ last' = Result("start", p, "", "Ok")
  /\ UNCHANGED <<non_reusable, slots, files, dirs, cwd, nterm>>

\* Library::get
LibraryGet(lib, sym) == sym \in lib

\* Mutant: the guard forgets the started flag.
HookGuardIgnoresStarted(pl) == ~pl.is_valid \/ IsNone(pl.raw)

\* The guard of Plugin::load_vhook and Plugin::get_custom_hook.
HookGuardFails(pl) == ~pl.started \/ ~pl.is_valid \/ IsNone(pl.raw)

\* Mutant: a missing symbol is reported as an invalid plugin.
LookupWrongError(lib, fn_name) ==
  IF LibraryGet(lib, fn_name) THEN "Ok" ELSE "InvalidPlugin"

\* The match on Library::get in load_vhook and get_custom_hook.
LookupResult(lib, fn_name) ==
  IF LibraryGet(lib, fn_name) THEN "Ok" ELSE "MissingSymbol"

\* Plugin::load_vhook and Plugin::get_custom_hook: the result of resolving
\* fn_name on plugin value pl.
ResolveHook(op, p, pl, fn_name) ==
  IF HookGuardFails(pl)
  THEN Result(op, p, fn_name, "InvalidPlugin")
  ELSE [Result(op, p, fn_name, LookupResult(Unwrap(pl.raw), fn_name))
        EXCEPT !.looked = TRUE]

HookOps == {"load_vhook", "get_hook", "get_custom_hook"}

\* Plugin::load_vhook, Plugin::get_hook (which calls it) and
\* Plugin::get_custom_hook.
Hook(p, op, fn_name) ==
  /\ ~Crashed
  /\ plugins[p].live
  /\ last' = ResolveHook(op, p, plugins[p], fn_name)
  /\ UNCHANGED <<non_reusable, slots, plugins, files, dirs, cwd, nterm>>

\* Mutant: terminate checks only that the module is bound.
TerminateGuardIgnoresStarted(pl) == IsNone(pl.raw)

\* The guards of Plugin::terminate.
TerminateGuardFails(pl) == IsNone(pl.raw) \/ ~pl.started

\* The destructor export terminate resolves.
DestructorSymbol == "vplugin_exit"

\* Mutant: a missing destructor still marks the plugin stopped.
NoDestructorStops(p, pl) ==
  [pl |-> [pl EXCEPT !.started = FALSE],
   res |-> [Result("terminate", p, "", "InvalidPlugin")
            EXCEPT !.looked = TRUE]]

\* Plugin::terminate when the module has no destructor: the warning names
\* the plugin by its metadata, and the plugin is left as it is.
NoDestructor(p, pl) ==
  IF IsNone(pl.metadata)
  THEN [pl |-> pl,
        res |-> [Panic("terminate", p, "", "metadata_unwrap")
                 EXCEPT !.looked = TRUE]]
  ELSE [pl |-> pl,
        res |-> [Result("terminate", p, "", "InvalidPlugin")
                 EXCEPT !.looked = TRUE]]

\* Mutant: the reset releases the module and forgets to clear is_valid.
TerminateResetKeepsValid(pl) ==
  [pl EXCEPT !.raw = None, !.filename = "", !.metadata = None]

\* Mutant: the reset keeps the metadata.
TerminateResetKeepsMetadata(pl) ==
  [pl EXCEPT !.is_valid = FALSE, !.raw = None, !.filename = ""]

\* The fields a successful terminate clears under non_reusable_plugins.
\* Mutant: the reset forgets to release the module.
TerminateResetKeepsModule(pl) ==
  [pl EXCEPT !.is_valid = FALSE, !.filename = "", !.metadata = None]

TerminateReset(pl) ==
  [pl EXCEPT !.is_valid = FALSE, !.raw = None, !.filename = "",
             !.metadata = None]

\* Mutant: the reset is done whatever the configuration.
AfterDestructorAlwaysResets(pl, nonreusable) ==
  [pl EXCEPT !.started = FALSE, !.is_valid = FALSE, !.raw = None,
             !.filename = "", !.metadata = None]

\* Plugin::terminate after the destructor ran.
AfterDestructor(pl, nonreusable) ==
  IF nonreusable
  THEN TerminateReset([pl EXCEPT !.started = FALSE])
  ELSE [pl EXCEPT !.started = FALSE]

\* Plugin::terminate on plugin value pl.
TerminateOn(p, pl, nonreusable) ==
  IF TerminateGuardFails(pl)
  THEN [pl |-> pl, res |-> Result("terminate", p, "", "InvalidPlugin")]
  ELSE IF ~LibraryGet(Unwrap(pl.raw), DestructorSymbol)
       THEN NoDestructor(p, pl)
       ELSE [pl |-> AfterDestructor(pl, nonreusable),
             res |-> [Result("terminate", p, "", "Ok")
                      EXCEPT !.looked = TRUE, !.called = TRUE]]

Terminate(p) ==
  /\ ~Crashed
  /\ plugins[p].live
  /\ LET t == TerminateOn(p, plugins[p], non_reusable)
     IN /\ plugins' = [plugins EXCEPT ![p] = t.pl]
        /\ last' = t.res
        /\ nterm' = IF t.res.ret = "Ok" /\ nterm[p] < MaxCycles
                    THEN [nterm EXCEPT ![p] = @ + 1]
                    ELSE nterm
  /\ UNCHANGED <<non_reusable, slots, files, dirs, cwd>>

\* Mutant: the probe answers only for a started plugin, as the hooks do.
FunctionAvailableNeedsStarted(pl, name) ==
  IF IsNone(pl.raw) \/ ~pl.started THEN "false"
  ELSE IF LibraryGet(Unwrap(pl.raw), name) THEN "true" ELSE "false"

\* Plugin::is_function_available: what it returns on plugin value pl.
FunctionAvailable(pl, name) ==
  IF IsNone(pl.raw) THEN "false"
  ELSE IF LibraryGet(Unwrap(pl.raw), name) THEN "true" ELSE "false"

\* Plugin::is_function_available
IsFunctionAvailable(p, name) ==
  /\ ~Crashed
  /\ plugins[p].live
  /\ last' = [Result("is_function_available", p, name,
                     FunctionAvailable(plugins[p], name))
              EXCEPT !.looked = IsSome(plugins[p].raw)]
  /\ UNCHANGED <<non_reusable, slots, plugins, files, dirs, cwd, nterm>>

\* Drop for Plugin: the host lets go of the plugin in slot p.
Drop(p, rmfail) ==
  /\ ~Crashed
  /\ plugins[p].live
  /\ LET d == DropOn(plugins[p], rmfail, TheWorld)
     IN /\ SetWorld(d.w)
        /\ last' = [Result("drop", p, "", d.ret) EXCEPT !.site = d.site]
        /\ plugins' = IF d.ret = "panic" THEN plugins
                      ELSE [plugins EXCEPT ![p] = NoPlugin]
        /\ nterm' = IF d.ret = "panic" THEN nterm
                    ELSE [nterm EXCEPT ![p] = 0]
  /\ UNCHANGED <<non_reusable, slots>>

Next ==
  \/ \E p \in slots, c \in LoadCases : Load(p, c.file, c.io)
  \/ \E p \in slots, io \in MetaIoCases : LoadMetadata(p, io)
  \/ \E p \in slots : Start(p)
  \/ \E p \in slots, op \in HookOps, s \in Symbols : Hook(p, op, s)
  \/ \E p \in slots : Terminate(p)
  \/ \E p \in slots, s \in Symbols : IsFunctionAvailable(p, s)
  \/ \E p \in slots, rmfail \in BOOLEAN : Drop(p, rmfail)

Spec == Init /\ [][Next]_vars

\* The archives the host loads side by side: two names, one name twice, and
\* one archive with no manifest.
ManyArchives == {"alpha.vpl", "beta.vpl", "slip.vpl", "nomanifest.vpl"}

\* The host only loads and drops plugins, and no I/O fails.
NextMany ==
  \/ \E p \in slots, a \in ManyArchives : Load(p, a, IoOk)
  \/ \E p \in slots, rmfail \in BOOLEAN : Drop(p, rmfail)

SpecMany == InitMany /\ [][NextMany]_vars

(***************************************************************************)
(* Lifecycle states of a plugin value.                                     *)
(***************************************************************************)
\* Bound: the module is bound and the plugin is not started.
IsBound(pl) ==
  pl.live /\ pl.is_valid /\ IsSome(pl.raw) /\ IsSome(pl.metadata)
    /\ ~pl.started

IsStarted(pl) ==
  pl.live /\ pl.is_valid /\ IsSome(pl.raw) /\ IsSome(pl.metadata)
    /\ pl.started

\* The state a successful terminate leaves under non_reusable_plugins.
IsReset(pl) ==
  pl.live /\ ~pl.started /\ ~pl.is_valid /\ IsNone(pl.raw)
    /\ IsNone(pl.metadata) /\ pl.filename = ""

(***************************************************************************)
(* C1.  In every reachable state, under either configuration, a plugin     *)
(* that is started is valid, and a plugin that is valid has its module     *)
(* handle.                                                                 *)
(***************************************************************************)
C1_StartedValidBound ==
  \A p \in Pids :
    /\ plugins[p].started => plugins[p].is_valid
    /\ plugins[p].is_valid => IsSome(plugins[p].raw)

\* load_metadata has been called again on a started plugin.
C1_Witness ==
  \E p \in Pids :
    /\ IsStarted(plugins[p])
    /\ last.op = "load_metadata" /\ last.pid = p /\ last.ret = "Ok"

(***************************************************************************)
(* C2.  A hook resolution (load_vhook, get_hook, get_custom_hook) on a     *)
(* plugin that is not started, or not valid, or has no module handle       *)
(* returns InvalidPlugin without looking any symbol up.  (A hook           *)
(* resolution leaves the plugin as it is, so the plugin of the state       *)
(* after the call is the plugin the call saw.)                             *)
(***************************************************************************)
C2_HookNeedsStarted ==
  \A p \in Pids :
    (/\ last.op \in HookOps
     /\ last.pid = p
     /\ \/ ~plugins[p].started
        \/ ~plugins[p].is_valid
        \/ IsNone(plugins[p].raw))
    => (last.ret = "InvalidPlugin" /\ ~last.looked)

\* A hook was asked of a bound plugin, for a symbol the module exports,
\* before the plugin was started.
C2_Witness ==
  \E p \in Pids :
    /\ IsBound(plugins[p])
    /\ last.op \in HookOps /\ last.pid = p
    /\ last.arg \in Unwrap(plugins[p].raw)
    /\ last.ret = "InvalidPlugin"

(***************************************************************************)
(* C3.  Under non_reusable_plugins a successful terminate leaves the       *)
(* plugin reset (not started, not valid, no module handle, no metadata,    *)
(* no source path), and from a reset plugin every hook resolution and      *)
(* every terminate returns InvalidPlugin and leaves it reset.              *)
(***************************************************************************)
C3_TerminateResets ==
  (last.op = "terminate" /\ last.ret = "Ok" /\ non_reusable)
    => IsReset(plugins[last.pid])

C3_ResetStaysUnusable ==
  \A p \in Pids :
    (/\ IsReset(plugins[p])
     /\ last'.op \in HookOps \cup {"terminate"}
     /\ last'.pid = p)
    => (last'.ret = "InvalidPlugin" /\ IsReset(plugins'[p]))

C3_NonReusableTerminate ==
  [](C3_TerminateResets) /\ [][C3_ResetStaysUnusable]_vars

\* A hook was asked of a plugin after its non-reusable termination.
C3_Witness ==
  \E p \in Pids :
    /\ non_reusable
    /\ nterm[p] > 0
    /\ IsReset(plugins[p])
    /\ last.op \in HookOps /\ last.pid = p /\ last.ret = "InvalidPlugin"

(***************************************************************************)
(* C4.  terminate on a plugin with no module handle, or not started,       *)
(* returns InvalidPlugin, changes no field of the plugin, and neither      *)
(* looks the destructor up nor calls it.                                   *)
(***************************************************************************)
C4_TerminateRefused ==
  \A p \in Pids :
    (/\ last'.op = "terminate"
     /\ last'.pid = p
     /\ (IsNone(plugins[p].raw) \/ ~plugins[p].started))
    => /\ last'.ret = "InvalidPlugin"
       /\ plugins'[p] = plugins[p]
       /\ ~last'.looked
       /\ ~last'.called

C4_TerminateUnstarted == [][C4_TerminateRefused]_vars

\* terminate was refused on a bound plugin that was never started and whose
\* module has a destructor.
C4_Witness ==
  \E p \in Pids :
    /\ IsBound(plugins[p])
    /\ nterm[p] = 0
    /\ DestructorSymbol \in Unwrap(plugins[p].raw)
    /\ last.op = "terminate" /\ last.pid = p /\ last.ret = "InvalidPlugin"

(***************************************************************************)
(* C5.  terminate on a started, bound plugin whose module does not export  *)
(* vplugin_exit returns InvalidPlugin and changes no field of the plugin   *)
(* (it stays started), under either configuration.                         *)
(***************************************************************************)
C5_NoDestructorStep ==
  \A p \in Pids :
    (/\ last'.op = "terminate"
     /\ last'.pid = p
     /\ plugins[p].started
     /\ IsSome(plugins[p].raw)
     /\ DestructorSymbol \notin Unwrap(plugins[p].raw))
    => /\ last'.ret = "InvalidPlugin"
       /\ plugins'[p] = plugins[p]
       /\ plugins'[p].started

C5_TerminateNoDestructor == [][C5_NoDestructorStep]_vars

\* Under non_reusable_plugins, terminate found no destructor in the module
\* of a started plugin.
C5_Witness ==
  \E p \in Pids :
    /\ non_reusable
    /\ IsStarted(plugins[p])
    /\ DestructorSymbol \notin Unwrap(plugins[p].raw)
    /\ last.op = "terminate" /\ last.pid = p
    /\ last.ret = "InvalidPlugin" /\ last.looked

(***************************************************************************)
(* C6.  Under the default configuration a successful terminate clears      *)
(* started and nothing else: the plugin is Bound again (valid, module      *)
(* handle and metadata present), so it can be started again, and the       *)
(* hooks of a started plugin that its module exports resolve.              *)
(***************************************************************************)
C6_TerminateStep ==
  \A p \in Pids :
    (last'.op = "terminate" /\ last'.pid = p /\ last'.ret = "Ok"
       /\ ~non_reusable)
    => /\ plugins[p].started
       /\ plugins'[p] = [plugins[p] EXCEPT !.started = FALSE]
       /\ IsBound(plugins'[p])

C6_Restartable ==
  /\ \A p \in slots : IsBound(plugins[p]) /\ ~Crashed => ENABLED Start(p)
  /\ \A p \in Pids :
       (/\ last.op \in HookOps /\ last.pid = p
        /\ IsStarted(plugins[p])
        /\ last.arg \in Unwrap(plugins[p].raw))
       => last.ret = "Ok"

C7_DropWithoutMetadataIsSafe ==
  ~(last.ret = "panic" /\ last.site = "drop_unwrap")

(***************************************************************************)
(* C8.  Dropping a plugin the host holds, in whatever lifecycle state,     *)
(* completes without a panic, and when the plugin's name is known and the  *)
(* removal did not fail the subdirectory of that name is gone afterwards.  *)
(***************************************************************************)
PluginDir(name) == StagingRoot \o <<name>>

C8_DropStep ==
  \A p \in Pids :
    (last'.op = "drop" /\ last'.pid = p)
    => /\ last'.ret = "Ok"
       /\ ~plugins'[p].live
       /\ (IsSome(plugins[p].metadata) /\ last'.site # "remove_failed")
            => PluginDir(Unwrap(plugins[p].metadata).name) \notin dirs'

C8_DropReleasesDirectory == [][C8_DropStep]_vars

(***************************************************************************)
(* C9.  Loading an archive whose manifest has an empty name, or a name     *)
(* with whitespace in it, returns InvalidPlugin to the caller: no panic,   *)
(* and no plugin (no metadata, no module) comes of it.                     *)
(***************************************************************************)
\* The manifest an archive carries, as toml reads it.
ManifestOf(a) ==
  LET entries == ArchiveEntries(a)
      idx == {i \in 1..Len(entries) : entries[i].name = <<"metadata.toml">>}
  IN IF idx = {} THEN None
     ELSE TomlFromStr(entries[CHOOSE i \in idx : TRUE].content)

HasBadName(a) ==
  /\ a \in Archives
  /\ IsSome(ManifestOf(a))
  /\ (IsEmpty(Unwrap(ManifestOf(a)).name)
        \/ HasWhitespace(Unwrap(ManifestOf(a)).name))

C9_BadNameIsInvalidPlugin ==
  (last.op = "load" /\ HasBadName(last.arg) /\ last.site # "extract_unwrap")
    => (last.ret = "InvalidPlugin" /\ ~plugins[last.pid].live)

(***************************************************************************)
(* C10.  Every file and directory that extraction writes lies under the    *)
(* staging root, whether this call created the staging root or it was      *)
(* there before: once the staging root exists, after every call that      *)
(* returned, every file and directory the program made is under it.        *)
(* (Nothing but the program writes files, so these are the files of the    *)
(* file system.)                                                           *)
(***************************************************************************)
C10_WritesUnderStagingRoot ==
  (StagingRoot \in dirs /\ ~Crashed)
    => /\ \A path \in DOMAIN files : IsUnder(StagingRoot, path)
       /\ \A d \in dirs \ {TempDir, HomeDir} : IsUnder(StagingRoot, d)

(***************************************************************************)
(* C11.  Two plugins with distinct names do not disturb each other's       *)
(* subdirectory: a load or a drop of one plugin leaves the subdirectory    *)
(* named after every other live plugin of a different name, and the module *)
(* file copied into it, as they were.                                      *)
(***************************************************************************)
\* The module file load_metadata copied for a plugin with manifest m.
ModuleCopy(m) == PluginDir(m.name) \o <<m.objfile>>

\* The name plugin p goes by in a step: the one it had, or the one it got.
StepNames(p) ==
  {Unwrap(x.metadata).name : x \in {y \in {plugins[p], plugins'[p]} :
                                       IsSome(y.metadata)}}

C11_Step ==
  \A p \in Pids, q \in Pids :
    (/\ p # q
     /\ last'.op \in {"load", "drop"} /\ last'.pid = p
     /\ plugins[q].live /\ IsSome(plugins[q].metadata)
     /\ Unwrap(plugins[q].metadata).name \notin StepNames(p))
    => LET m == Unwrap(plugins[q].metadata)
       IN /\ plugins'[q] = plugins[q]
          /\ PluginDir(m.name) \in dirs => PluginDir(m.name) \in dirs'
          /\ ModuleCopy(m) \in DOMAIN files
               => /\ ModuleCopy(m) \in DOMAIN files'
                  /\ files'[ModuleCopy(m)] = files[ModuleCopy(m)]

C12_UniqueSubdirectory ==
  \A p \in Pids, q \in Pids :
    (/\ p # q
     /\ plugins[p].live /\ IsSome(plugins[p].metadata)
     /\ plugins[q].live /\ IsSome(plugins[q].metadata))
    => PluginDir(Unwrap(plugins[p].metadata).name)
         # PluginDir(Unwrap(plugins[q].metadata).name)

(***************************************************************************)
(* C13.  Loading a valid archive (its manifest has a non-empty, space-free *)
(* name and it carries a module that loads) when no I/O fails succeeds,    *)
(* and the plugin it yields is valid, has its module, is not started, and  *)
(* bears the name of the archive's own manifest.                           *)
(***************************************************************************)
\* The module file an archive carries under the name its manifest gives.
ModuleOf(a) ==
  LET entries == ArchiveEntries(a)
      idx == IF IsNone(ManifestOf(a)) THEN {}
             ELSE {i \in 1..Len(entries) :
                     entries[i].name = <<Unwrap(ManifestOf(a)).objfile>>}
  IN IF idx = {} THEN None
     ELSE Some(entries[CHOOSE i \in idx : TRUE].content)

HasGoodName(a) ==
  /\ a \in Archives /\ IsZip(a)
  /\ IsSome(ManifestOf(a))
  /\ ~IsEmpty(Unwrap(ManifestOf(a)).name)
  /\ ~Contains(Unwrap(ManifestOf(a)).name, " ")

ValidArchive(a) ==
  /\ HasGoodName(a)
  /\ IsSome(ModuleOf(a))
  /\ IsSome(ModuleExports(Unwrap(ModuleOf(a))))

C13_ValidArchiveLoads ==
  (last.op = "load" /\ ValidArchive(last.arg) /\ last.io = IoOk)
    => /\ last.ret = "Ok"
       /\ IsBound(plugins[last.pid])
       /\ Unwrap(plugins[last.pid].metadata).name
            = Unwrap(ManifestOf(last.arg)).name

\* A valid archive was loaded over the files an earlier load of an archive
\* of another name left in the current directory.
C13_Witness ==
  /\ last.op = "load" /\ last.arg = "beta.vpl" /\ last.io = IoOk
  /\ last.ret = "Ok"
  /\ PluginDir("alpha") \o <<"lib.so">> \in DOMAIN files

(***************************************************************************)
(* C14.  Loading an archive that carries no manifest returns NoSuchFile to *)
(* the caller and yields no plugin: no module is copied or bound, and no   *)
(* manifest left by an earlier load is read in its stead.                  *)
(***************************************************************************)
LacksManifest(a) ==
  /\ a \in Archives /\ IsZip(a)
  /\ \A i \in 1..Len(ArchiveEntries(a)) :
       ArchiveEntries(a)[i].name # <<"metadata.toml">>

C14_MissingManifestIsNoSuchFile ==
  (last.op = "load" /\ LacksManifest(last.arg) /\ last.io = IoOk)
    => (last.ret = "NoSuchFile" /\ ~plugins[last.pid].live)

(***************************************************************************)
(* C15.  When the module cannot be bound (the archive carries no module    *)
(* file under the manifest's name, or one the loader rejects), load        *)
(* returns FailedToInitialize, NoSuchFile or PermissionDenied and does not *)
(* crash, and no valid plugin and no module handle come of it.             *)
(***************************************************************************)
BindingMustFail(a) ==
  /\ HasGoodName(a)
  /\ (IsNone(ModuleOf(a)) \/ IsNone(ModuleExports(Unwrap(ModuleOf(a)))))

C15_BindingFailureIsTypedError ==
  (last.op = "load" /\ BindingMustFail(last.arg) /\ last.io = IoOk)
    => /\ last.ret \in {"FailedToInitialize", "NoSuchFile",
                        "PermissionDenied"}
       /\ ~plugins[last.pid].is_valid
       /\ IsNone(plugins[last.pid].raw)

(***************************************************************************)
(* C16.  Loading a package that opens but is corrupt (not a readable       *)
(* archive), or whose entries cannot be written out, returns InternalError *)
(* and does not crash.                                                     *)
(***************************************************************************)
C16_CorruptPackageIsInternalError ==
  /\ (last.op = "load" /\ last.arg \in Archives /\ ~IsZip(last.arg)
        /\ last.io = IoOk)
       => last.ret = "InternalError"
  /\ (last.op = "load" /\ last.site = "extract_unwrap")
       => last.ret = "InternalError"

(***************************************************************************)
(* C17.  Whatever class of I/O failure opening the archive path or the     *)
(* manifest meets, load returns an error and does not panic: NoSuchFile    *)
(* for not-found, PermissionDenied for permission-denied, InternalError    *)
(* for unsupported and for every other class.                              *)
(***************************************************************************)
ExpectedOpenError(k) ==
  CASE k = "NotFound" -> "NoSuchFile"
    [] k = "PermissionDenied" -> "PermissionDenied"
    [] OTHER -> "InternalError"

C17_OpenFailuresAreErrors ==
  /\ (last.op = "load" /\ OpenArchive(last.arg) # "Ok")
       => last.ret = ExpectedOpenError(OpenArchive(last.arg))
  /\ (last.op = "load" /\ ValidArchive(last.arg) /\ last.io.writable
        /\ last.io.mopen # "Ok")
       => last.ret = ExpectedOpenError(last.io.mopen)

(***************************************************************************)
(* C18.  is_function_available returns false when the plugin has no        *)
(* module, false for a symbol the module does not export and true for one  *)
(* it exports, whether or not the plugin is started; it never panics and   *)
(* changes nothing of the plugin or the file system.                       *)
(***************************************************************************)
C18_Step ==
  \A p \in Pids :
    (last'.op = "is_function_available" /\ last'.pid = p)
    => /\ last'.ret = IF IsSome(plugins[p].raw)
                         /\ last'.arg \in Unwrap(plugins[p].raw)
                      THEN "true" ELSE "false"
       /\ UNCHANGED <<plugins, files, dirs, cwd>>

C18_ProbeIsTotal == [][C18_Step]_vars

\* The probe found an exported symbol on a plugin that is not started.
C18_Witness ==
  /\ last.op = "is_function_available" /\ last.ret = "true"
  /\ IsBound(plugins[last.pid])

(***************************************************************************)
(* C19.  On a started, valid plugin with its module, resolving a hook the  *)
(* module does not export returns MissingSymbol and resolving one it       *)
(* exports succeeds; neither changes the plugin.                           *)
(***************************************************************************)
C19_Step ==
  \A p \in Pids :
    (last'.op \in HookOps /\ last'.pid = p /\ IsStarted(plugins[p]))
    => /\ last'.ret = IF last'.arg \in Unwrap(plugins[p].raw)
                      THEN "Ok" ELSE "MissingSymbol"
       /\ UNCHANGED plugins

C19_HookResolution == [][C19_Step]_vars

\* A started plugin was asked for a hook its module does not export.
C19_Witness ==
  /\ last.op \in HookOps /\ last.ret = "MissingSymbol"
  /\ IsStarted(plugins[last.pid])

(***************************************************************************)
(* C20.  Whenever a plugin's metadata is present, its name is non-empty    *)
(* and contains no whitespace.                                             *)
(***************************************************************************)
C20_NameIsIdentity ==
  \A p \in Pids :
    IsSome(plugins[p].metadata)
    => /\ ~IsEmpty(Unwrap(plugins[p].metadata).name)
       /\ ~HasWhitespace(Unwrap(plugins[p].metadata).name)

(***************************************************************************)
(* C21.  A version that is empty or contains whitespace does not block     *)
(* loading: when no I/O fails, loading an archive that is valid but for    *)
(* such a version succeeds, and the plugin is valid, has its module, and   *)
(* has metadata bearing the manifest's name and that version.              *)
(***************************************************************************)
HasBadVersion(a) ==
  /\ IsSome(ManifestOf(a))
  /\ (IsEmpty(Unwrap(ManifestOf(a)).version)
        \/ HasWhitespace(Unwrap(ManifestOf(a)).version))

C21_BadVersionLoads ==
  (last.op = "load" /\ ValidArchive(last.arg) /\ HasBadVersion(last.arg)
     /\ last.io = IoOk)
    => /\ last.ret = "Ok"
       /\ IsBound(plugins[last.pid])
       /\ Unwrap(plugins[last.pid].metadata).name
            = Unwrap(ManifestOf(last.arg)).name
       /\ Unwrap(plugins[last.pid].metadata).version
            = Unwrap(ManifestOf(last.arg)).version

\* An archive whose version has a space in it was loaded, with a warning.
C21_Witness ==
  /\ last.op = "load" /\ last.arg = "badversion.vpl" /\ last.ret = "Ok"
  /\ last.site = "version_warning"
  /\ IsBound(plugins[last.pid])

(***************************************************************************)
(* C22.  When the manifest text cannot be parsed into the metadata record  *)
(* (no metadata section, or a required field missing), load_metadata       *)
(* returns ParametersError; no plugin with metadata, a module, is_valid or *)
(* started comes of it, and nothing is created or written in any           *)
(* subdirectory of the staging root: no plugin directory, no module copy.  *)
(* The call is the one Plugin::load makes; load_metadata's result is       *)
(* last.err, and what load does with it afterwards is the matter of C7.    *)
(***************************************************************************)
\* Manifest texts that lack the metadata section, or the name field.
UnparsableTexts == {"toml_nosection", "toml_noname"}

Unparsable(a) ==
  /\ a \in Archives /\ IsZip(a)
  /\ \E i \in 1..Len(ArchiveEntries(a)) :
       /\ ArchiveEntries(a)[i].name = <<"metadata.toml">>
       /\ ArchiveEntries(a)[i].content \in UnparsableTexts

\* Directories and files below a subdirectory of the staging root.
InPluginDirs(path, depth) ==
  IsUnder(StagingRoot, path) /\ Len(path) >= Len(StagingRoot) + depth

C22_Step ==
  \A p \in Pids :
    (last'.op = "load" /\ last'.pid = p /\ Unparsable(last'.arg)
       /\ last'.io = IoOk)
    => /\ LET la == LoadArchive(last'.arg, TRUE, TheWorld)
              lm == LoadMetadataOn(NewPlugin(last'.arg), "Ok", TRUE, la.w)
          IN /\ lm.ret = "ParametersError"
             /\ IsNone(lm.pl.metadata) /\ IsNone(lm.pl.raw)
             /\ ~lm.pl.is_valid /\ ~lm.pl.started
       /\ last'.err = "ParametersError"
       /\ plugins'[p] = NoPlugin
       /\ \A d \in dirs' \ dirs : ~InPluginDirs(d, 1)
       /\ \A f \in DOMAIN files' :
            InPluginDirs(f, 2)
              => (f \in DOMAIN files /\ files'[f] = files[f])

C22_UnparsableIsParametersError == [][C22_Step]_vars

\* load_metadata returned ParametersError for a manifest with no metadata
\* section.
C22_Witness ==
  /\ last.op = "load" /\ last.arg = "badtoml.vpl" /\ last.io = IoOk
  /\ last.err = "ParametersError"

(***************************************************************************)
(* C23.  In every state between operations, whatever loads, load_metadata  *)
(* calls, starts and terminates came before and in either configuration,   *)
(* a plugin's metadata is present exactly when its module handle is        *)
(* present, and exactly when is_valid is true: no plugin is seen with      *)
(* metadata and no bound module.                                           *)
(***************************************************************************)
C23_MetadataModuleValidTogether ==
  \A p \in Pids :
    /\ IsSome(plugins[p].metadata) <=> IsSome(plugins[p].raw)
    /\ IsSome(plugins[p].raw) <=> plugins[p].is_valid

\* A plugin that terminate had reset (metadata, module and is_valid all
\* gone) was bound again by load_metadata: all three are back.
C23_Witness ==
  /\ last.op = "load_metadata" /\ last.ret = "Ok"
  /\ plugins[last.pid].live /\ plugins[last.pid].filename = ""
  /\ IsSome(plugins[last.pid].metadata) /\ IsSome(plugins[last.pid].raw)
  /\ plugins[last.pid].is_valid

====
